---- MODULE Spec2Model ----
(***************************************************************************)
(* A model of the text-analysis pipeline of ki_gegen_rechts.               *)
(*                                                                         *)
(* Two entry points build a report for one message:                        *)
(*   - parallel_text_analyser_chains (analyser.py 39-95): a                *)
(*     RunnableParallel of four branches, the detection branch being the   *)
(*     detector chain piped into the validator chain;                      *)
(*   - analyse_text_message_with_llm (analyser.py 100-122): the moderation *)
(*     call followed by a loop over the four prompts.                      *)
(* One behaviour of the model is one run of one entry point.  The language *)
(* model and the moderation service are the environment: each call either  *)
(* raises a provider error or returns one of a small set of responses.     *)
(***************************************************************************)
EXTENDS Naturals, Sequences, FiniteSets, TLC

(***************************************************************************)
(* Bounds                                                                  *)
(***************************************************************************)
NumMessages == 2

MessageNames == <<"You suck!", "Good morning", "m3", "m4">>

Messages == {MessageNames[i] : i \in 1..NumMessages}

(***************************************************************************)
(* Python values.  Every value is a record of the same shape so that any   *)
(* two of them can be compared: a string, a boolean, a dict (keys to       *)
(* values) or the absence of a value.                                      *)
(***************************************************************************)
NoDict == [k \in {} |-> 0]

NoValue == [kind |-> "none", s |-> "", d |-> NoDict]

Str(a) == [kind |-> "str", s |-> a, d |-> NoDict]

Bool(b) == [kind |-> "bool", s |-> IF b THEN "true" ELSE "false", d |-> NoDict]

Dict(f) == [kind |-> "dict", s |-> "", d |-> f]

Num(n) == [kind |-> "num", s |-> n, d |-> NoDict]

Null == [kind |-> "null", s |-> "", d |-> NoDict]

List(n) == [kind |-> "list", s |-> n, d |-> NoDict]

Put(f, k, v) == [y \in DOMAIN f \cup {k} |-> IF y = k THEN v ELSE f[y]]

Has(v, k) == v.kind = "dict" /\ k \in DOMAIN v.d

(***************************************************************************)
(* The prompts (prompts.py) and the order of _text_analyser_prompts.       *)
(***************************************************************************)
text_analyser_prompts == <<"detector", "validator", "classifier", "right-wing-rater">>

PromptNames == {text_analyser_prompts[i] : i \in 1..Len(text_analyser_prompts)}

StageNames == PromptNames \cup {"moderator"}

\* input_variables of each PromptTemplate
InputVariables(name) ==
    IF name = "validator" THEN {"classification", "explanation", "message"}
    ELSE {"message"}

\* the placeholders the template text holds, format_instructions (a partial
\* variable, the same in every rendering) left out
TemplateVariables(name) ==
    IF name = "validator" THEN {"classification", "message"}
    ELSE {"message"}

NoPrompt == [name |-> "", fields |-> NoDict]

\* PromptTemplate.invoke raises KeyError when an input variable is missing
CanRender(name, inp) == InputVariables(name) \subseteq DOMAIN inp

\* the rendered prompt: the template of `name` with its placeholders filled
Render(name, inp) ==
    [name |-> name, fields |-> [k \in TemplateVariables(name) |-> inp[k]]]

(***************************************************************************)
(* The formats (the pydantic classes of prompts.py) and the categories the *)
(* templates name.                                                         *)
(***************************************************************************)
BoolFields(name) ==
    CASE name = "classifier" ->
           {"racism", "antisemitism", "homophobia", "ableism", "violence", "sexism",
            "other_hate_speech"}
      [] name = "right-wing-rater" -> {"right_wing_indicator"}
      [] OTHER -> {}

StrFields(name) ==
    IF name = "right-wing-rater" THEN {"rating", "explanation"}
    ELSE {"classification", "explanation"}

SchemaFields(name) == BoolFields(name) \cup StrFields(name)

EnumField(name) == IF name = "right-wing-rater" THEN "rating" ELSE "classification"

EnumValues(name) ==
    CASE name = "classifier" ->
           {"Personal experience", "Historical reference", "Offensive insult"}
      [] name = "right-wing-rater" -> {"0", "1", "2", "3"}
      [] OTHER -> {"Direct hate speech", "Indirect hate speech", "No hate speech",
                   "Review needed", "Unknown"}

(***************************************************************************)
(* JsonBooleanChecker (llm_chains.py 183-201).  Neither entry point puts   *)
(* it into a chain; parse(result) hands a dict to parse_result.            *)
(***************************************************************************)
true_vals == {"true", "right", "yes"}

false_vals == {"false", "wrong", "no"}

\* the spellings of the words the model knows; str.lower() of each
Lower(w) ==
    CASE w \in {"true", "True", "TRUE"} -> "true"
      [] w \in {"yes", "Yes", "YES"} -> "yes"
      [] w \in {"right", "Right"} -> "right"
      [] w \in {"false", "False", "FALSE"} -> "false"
      [] w \in {"no", "No", "NO"} -> "no"
      [] w \in {"wrong", "Wrong"} -> "wrong"
      [] w = "Maybe" -> "maybe"
      [] OTHER -> w

\* val.lower() exists for a string only; isinstance(val, bool) is asked first
LowerRaises(v) == v.kind \notin {"bool", "str"}

\* lines 191-196, for one value
CoerceValue(v) ==
    IF v.kind # "bool" /\ Lower(v.s) \in true_vals THEN Bool(TRUE)
    ELSE IF v.kind # "bool" /\ Lower(v.s) \in false_vals THEN Bool(FALSE)
    ELSE v

\* lines 189-198: AttributeError on the first value without lower(), or the
\* dict with every key coerced
ParseResultRaises(rec) == \E k \in DOMAIN rec : LowerRaises(rec[k])

ParseResult(rec) == [k \in DOMAIN rec |-> CoerceValue(rec[k])]

\* result[key] = ... at lines 192 and 194 writes into the dict it was given:
\* when val.lower() raises, the keys before it are already coerced.  The
\* dict is held here in the order of its keys, position i for the i-th key
FirstRaising(rec) ==
    CHOOSE i \in DOMAIN rec :
        LowerRaises(rec[i]) /\ \A j \in DOMAIN rec : j < i => ~LowerRaises(rec[j])

ParseResultPartial(rec) ==
    [k \in DOMAIN rec |-> IF k < FirstRaising(rec) THEN CoerceValue(rec[k]) ELSE rec[k]]

\* the values a decoded JSON object can hold
CheckerValues ==
    {Bool(TRUE), Bool(FALSE), Str("Yes"), Str("TRUE"), Str("right"), Str("no"),
     Str("False"), Str("Wrong"), Str("Maybe"), Str("e1"), Num("1"), Null, List("[]"),
     Dict(NoDict)}

MaxCheckerFields == 2

CheckerRecords ==
    UNION { [1..n -> CheckerValues] : n \in 0..MaxCheckerFields }

(***************************************************************************)
(* Responses of the language model.  A text has its raw content; a text    *)
(* that is a JSON object also has the object it decodes to.                *)
(***************************************************************************)
JsonText(raw, obj) == [raw |-> raw, json |-> TRUE, obj |-> obj]

PlainText(raw) == [raw |-> raw, json |-> FALSE, obj |-> NoDict]

TxtDirect ==
    JsonText("{classification: Direct hate speech, explanation: e1}",
             [classification |-> Str("Direct hate speech"), explanation |-> Str("e1")])

TxtNoHate ==
    JsonText("{classification: No hate speech, explanation: e2}",
             [classification |-> Str("No hate speech"), explanation |-> Str("e2")])

TxtNoClassification ==
    JsonText("{explanation: e1}", [explanation |-> Str("e1")])

TxtMessageKey ==
    JsonText("{message: injected, classification: Review needed, explanation: e3}",
             [message |-> Str("injected"), classification |-> Str("Review needed"),
              explanation |-> Str("e3")])

TxtClassifier ==
    JsonText("{classification: Offensive insult, racism: true, (the others): false, explanation: e4}",
             [classification |-> Str("Offensive insult"), racism |-> Bool(TRUE),
              antisemitism |-> Bool(FALSE), homophobia |-> Bool(FALSE),
              ableism |-> Bool(FALSE), violence |-> Bool(FALSE), sexism |-> Bool(FALSE),
              other_hate_speech |-> Bool(FALSE), explanation |-> Str("e4")])

\* the booleans answered as words
TxtClassifierWords ==
    JsonText("{classification: Offensive insult, racism: Yes, (the others): no, explanation: e4}",
             [classification |-> Str("Offensive insult"), racism |-> Str("Yes"),
              antisemitism |-> Str("no"), homophobia |-> Str("no"),
              ableism |-> Str("no"), violence |-> Str("no"), sexism |-> Str("no"),
              other_hate_speech |-> Str("no"), explanation |-> Str("e4")])

\* a well-formed answer whose explanation is the word "No"
TxtRater ==
    JsonText("{right_wing_indicator: false, rating: 0, explanation: No}",
             [right_wing_indicator |-> Bool(FALSE), rating |-> Str("0"),
              explanation |-> Str("No")])

TxtProse == PlainText("I think this is hateful")

TxtEmpty == PlainText("")

\* what the model may answer to the prompt of each stage
Texts(name) ==
    CASE name = "detector" ->
           {TxtDirect, TxtNoHate, TxtNoClassification, TxtMessageKey, TxtProse, TxtEmpty}
      [] name = "validator" -> {TxtDirect, TxtNoHate, TxtProse}
      [] name = "classifier" -> {TxtClassifier, TxtClassifierWords, TxtProse}
      [] OTHER -> {TxtRater, TxtProse}

\* JsonOutputParser: the decoded object, or OutputParserException
ParseOk(text) == text.json

\* variant of ParseJson: the decoded record goes through JsonBooleanChecker
ParseJsonCoerced(text) == Dict(ParseResult(text.obj))

ParseJson(text) == Dict(text.obj)

\* StrOutputParser: the content as it is
ParseStr(text) == Str(text.raw)

(***************************************************************************)
(* Responses of the moderation service: results[0].model_dump().           *)
(***************************************************************************)
ModerationResults ==
    { Dict([flagged |-> Bool(FALSE),
            categories |-> Dict([harassment |-> Bool(TRUE)])]),
      Dict([flagged |-> Bool(TRUE),
            categories |-> Dict([harassment |-> Bool(FALSE)])]) }

(***************************************************************************)
(* The chat model.  Both entry points take it as the argument llm, with    *)
(* the default ChatOpenAI(); neither sets a temperature, so every          *)
(* invocation runs with the temperature of the model object: the one the   *)
(* caller configured (0.0 in the example of the docstring, line 63), or,   *)
(* for the default argument, none: "unset" stands for the default of the   *)
(* ChatOpenAI class, which is not 0.                                       *)
(***************************************************************************)
ChatModels ==
    { [default |-> TRUE, temperature |-> "unset"],
      [default |-> FALSE, temperature |-> "0.0"] }

VARIABLES
    entry,      \* which entry point runs: "parallel" or "sequential"
    message,    \* the caller's message
    outcome,    \* "created", "running", "returned" or "raised"
    st,         \* per stage: "pending", "calling", "retrying", "done", "raised"
    err,        \* per stage: the exception it raised, or "none"
    out,        \* per stage: the output of its chain (chain_output)
    input,      \* the input dict of analyse_text_message_with_llm
    results,    \* the dict returned to the caller
    calls,      \* per stage: the number of invocations issued
    prompts,    \* per stage: the prompt of its last invocation
    resp,       \* per stage: the last answer of the model or the service
    cancelled,  \* the caller interrupted the run
    lateCalls,  \* invocations issued after the interrupt
    llm,        \* the chat model the entry point was given
    jbcIn,      \* the dict handed to JsonBooleanChecker.parse_result
    jbcOut      \* what parse_result did with it

pipelineVars == <<entry, message, outcome, st, err, out, input, results, calls,
                  prompts, resp, cancelled, lateCalls, llm>>

checkerVars == <<jbcIn, jbcOut>>

vars == <<pipelineVars, checkerVars>>

\* parse_result has not been called
CheckerIdle ==
    /\ jbcIn = NoDict
    /\ jbcOut = [status |-> "idle", value |-> NoValue]

\* the arguments of an entry point, and the run before its first step
PipelineInit ==
    /\ llm \in ChatModels
    /\ entry \in {"parallel", "sequential"}
    /\ message \in Messages
    /\ outcome = "created"
    /\ st = [n \in StageNames |-> "pending"]
    /\ err = [n \in StageNames |-> "none"]
    /\ out = [n \in StageNames |-> NoValue]
    /\ input = NoDict
    /\ results = NoDict
    /\ calls = [n \in StageNames |-> 0]
    /\ prompts = [n \in PromptNames |-> NoPrompt]
    /\ resp = [n \in StageNames |-> NoValue]
    /\ cancelled = FALSE
    /\ lateCalls = 0

Init ==
    /\ CheckerIdle
    /\ PipelineInit


(***************************************************************************)
(* Counting an invocation: calls issued once the caller has interrupted    *)
(* the run are counted apart.                                              *)
(***************************************************************************)
Issue(name) ==
    /\ calls' = [calls EXCEPT ![name] = @ + 1]
    /\ lateCalls' = IF cancelled THEN lateCalls + 1 ELSE lateCalls

(***************************************************************************)
(* analyse_text_message_with_llm                                           *)
(***************************************************************************)

\* dict.update(chain_output) at line 118: a dict adds and overwrites keys; a
\* string is taken as a sequence of pairs, so the empty string changes
\* nothing and any other string raises ValueError
UpdateOk(v) == v.kind = "dict" \/ (v.kind = "str" /\ v.s = "")

Update(inp, v) ==
    IF v.kind = "dict"
    THEN [k \in DOMAIN inp \cup DOMAIN v.d |-> IF k \in DOMAIN v.d THEN v.d[k] ELSE inp[k]]
    ELSE inp

\* line 103: input, results = {"message": message}, {}
\* line 104: the moderation call is issued
SeqInvoke ==
    /\ UNCHANGED <<llm, checkerVars>>
    /\ entry = "sequential"
    /\ outcome = "created"
    /\ outcome' = "running"
    /\ input' = [message |-> Str(message)]
    /\ results' = NoDict
    /\ st' = [st EXCEPT !["moderator"] = "calling"]
    /\ Issue("moderator")
    /\ UNCHANGED <<entry, message, err, out, prompts, resp, cancelled>>

\* the loop of lines 107-120 reaches prompt number i with input inp and
\* results res: the prompt is rendered and the model invoked (line 111), or
\* the loop is over and results returned (line 122)
SeqIterate(i, inp, res, stt, outt) ==
    /\ input' = inp
    /\ results' = res
    /\ out' = outt
    /\ IF i > Len(text_analyser_prompts)
       THEN /\ outcome' = "returned"
            /\ st' = stt
            /\ UNCHANGED <<err, calls, lateCalls, prompts>>
       ELSE LET name == text_analyser_prompts[i] IN
            IF CanRender(name, inp)
            THEN /\ st' = [stt EXCEPT ![name] = "calling"]
                 /\ prompts' = [prompts EXCEPT ![name] = Render(name, inp)]
                 /\ Issue(name)
                 /\ UNCHANGED <<outcome, err>>
            ELSE /\ st' = [stt EXCEPT ![name] = "raised"]
                 /\ err' = [err EXCEPT ![name] = "KeyError"]
                 /\ outcome' = "raised"
                 /\ UNCHANGED <<calls, lateCalls, prompts>>

Index(name) == CHOOSE i \in 1..Len(text_analyser_prompts) : text_analyser_prompts[i] = name

\* line 104 returns: results["moderator"] is the service's record
SeqModeratorReturn ==
    /\ UNCHANGED <<llm, checkerVars>>
    /\ entry = "sequential"
    /\ outcome = "running"
    /\ st["moderator"] = "calling"
    /\ \E r \in ModerationResults :
          /\ resp' = [resp EXCEPT !["moderator"] = r]
          /\ SeqIterate(1, input, Put(results, "moderator", r),
                        [st EXCEPT !["moderator"] = "done"],
                        [out EXCEPT !["moderator"] = r])
    /\ UNCHANGED <<entry, message, cancelled>>

\* a provider error at line 104, 111 or 115: nothing catches it
SeqProviderError ==
    /\ UNCHANGED <<llm, checkerVars>>
    /\ entry = "sequential"
    /\ outcome = "running"
    /\ \E name \in StageNames :
          /\ st[name] \in {"calling", "retrying"}
          /\ st' = [st EXCEPT ![name] = "raised"]
          /\ err' = [err EXCEPT ![name] = "ProviderError"]
    /\ outcome' = "raised"
    /\ UNCHANGED <<entry, message, out, input, results, calls, prompts, resp, cancelled,
                   lateCalls>>

\* variant of SeqStore: the validator's output is stored under the
\* detector's key
SeqStoreOverDetector(name, v) ==
    IF name = "detector" /\ ~UpdateOk(v)
    THEN /\ st' = [st EXCEPT ![name] = "raised"]
         /\ err' = [err EXCEPT ![name] = "ValueError"]
         /\ out' = [out EXCEPT ![name] = v]
         /\ outcome' = "raised"
         /\ UNCHANGED <<input, results, calls, lateCalls, prompts>>
    ELSE SeqIterate(Index(name) + 1,
                    IF name = "detector" THEN Update(input, v) ELSE input,
                    Put(results, IF name = "validator" THEN "detector" ELSE name, v),
                    [st EXCEPT ![name] = "done"],
                    [out EXCEPT ![name] = v])

\* what lines 117-120 do with chain_output, then the next iteration
SeqStore(name, v) ==
    IF name = "detector" /\ ~UpdateOk(v)
    THEN /\ st' = [st EXCEPT ![name] = "raised"]
         /\ err' = [err EXCEPT ![name] = "ValueError"]
         /\ out' = [out EXCEPT ![name] = v]
         /\ outcome' = "raised"
         /\ UNCHANGED <<input, results, calls, lateCalls, prompts>>
    ELSE SeqIterate(Index(name) + 1,
                    IF name = "detector" THEN Update(input, v) ELSE input,
                    Put(results, name, v),
                    [st EXCEPT ![name] = "done"],
                    [out EXCEPT ![name] = v])

\* line 111 returns: the response decodes, or OutputParserException is
\* caught and the same prompt is invoked again for plain text (line 115)
SeqRespond ==
    /\ UNCHANGED <<llm, checkerVars>>
    /\ entry = "sequential"
    /\ outcome = "running"
    /\ \E name \in PromptNames : \E text \in Texts(name) :
          /\ st[name] = "calling"
          /\ resp' = [resp EXCEPT ![name] = text]
          /\ IF ParseOk(text)
             THEN SeqStore(name, ParseJson(text))
             ELSE /\ st' = [st EXCEPT ![name] = "retrying"]
                  /\ prompts' = [prompts EXCEPT ![name] = Render(name, input)]
                  /\ Issue(name)
                  /\ UNCHANGED <<outcome, err, out, input, results>>
    /\ UNCHANGED <<entry, message, cancelled>>

\* variant of SeqRetryRespond: the second response is decoded too and an
\* undecodable one is asked for again
SeqRetryUntilDecoded ==
    /\ UNCHANGED <<llm, checkerVars>>
    /\ entry = "sequential"
    /\ outcome = "running"
    /\ \E name \in PromptNames : \E text \in Texts(name) :
          /\ st[name] = "retrying"
          /\ resp' = [resp EXCEPT ![name] = text]
          /\ IF ParseOk(text)
             THEN SeqStore(name, ParseJson(text))
             ELSE /\ calls[name] < 3
                  /\ Issue(name)
                  /\ UNCHANGED <<outcome, st, err, out, input, results, prompts>>
    /\ UNCHANGED <<entry, message, cancelled>>

\* line 115 returns: chain_output is the content of the second response
SeqRetryRespond ==
    /\ UNCHANGED <<llm, checkerVars>>
    /\ entry = "sequential"
    /\ outcome = "running"
    /\ \E name \in PromptNames : \E text \in Texts(name) :
          /\ st[name] = "retrying"
          /\ resp' = [resp EXCEPT ![name] = text]
          /\ SeqStore(name, ParseStr(text))
    /\ UNCHANGED <<entry, message, cancelled>>


(***************************************************************************)
(* parallel_text_analyser_chains                                           *)
(***************************************************************************)

\* the input the caller invokes the chain with: {"message": message}
ParInput == [message |-> Str(message)]

\* itemgetter("classification") and itemgetter("explanation") at lines 75-76
\* raise KeyError on a detector output without the key
ItemgetterOk(v) == Has(v, "classification") /\ Has(v, "explanation")

\* lines 73-77: what detector_chain hands to validator_chain.  "message" is
\* RunnablePassthrough() of the step's input, which is the detector's output
DetectorChainOutput(v) ==
    [k \in {"message"} \cup
           ({"classification", "explanation"} \cap (IF v.kind = "dict" THEN DOMAIN v.d ELSE {}))
       |-> IF k = "message" THEN v ELSE v.d[k]]

\* the input each prompt of the map_chain is rendered with
ParInputOf(name) ==
    IF name = "validator" THEN DetectorChainOutput(out["detector"]) ELSE ParInput

\* variants of PipeReady: the validator chain as a branch of its own, and the
\* classifier chained after the validator
PipeReadyAlways(name) == TRUE

PipeReadySerial(name) ==
    /\ name = "validator" => st["detector"] = "done"
    /\ name = "classifier" => st["validator"] = "done"

\* line 89, detector_chain | validator_chain: the second runs on the output
\* of the first; the other branches of the RunnableParallel wait for nothing
PipeReady(name) == name = "validator" => st["detector"] = "done"

\* variant of ModerationChainOutput: the record of the service alone
ModerationChainOutputPlain(r) == r

\* Chain.invoke on OpenAIModerationChain: the inputs together with the
\* outputs of _call (llm_chains.py 120-127)
ModerationChainOutput(r) == Dict([message |-> Str(message), mod_results |-> r])

\* map_chain.invoke(input): the four branches are handed to the executor
ParInvoke ==
    /\ UNCHANGED <<llm, checkerVars>>
    /\ entry = "parallel"
    /\ outcome = "created"
    /\ outcome' = "running"
    /\ UNCHANGED <<entry, message, st, err, out, input, results, calls, prompts,
                   resp, cancelled, lateCalls>>

\* a branch starts: its prompt is rendered and the model invoked, or the
\* moderation service is called
ParDispatch ==
    /\ UNCHANGED <<llm, checkerVars>>
    /\ entry = "parallel"
    /\ outcome = "running"
    /\ \E name \in StageNames :
          /\ st[name] = "pending"
          /\ PipeReady(name)
          /\ IF name = "moderator"
             THEN /\ st' = [st EXCEPT ![name] = "calling"]
                  /\ Issue(name)
                  /\ UNCHANGED <<prompts, err>>
             ELSE IF CanRender(name, ParInputOf(name))
             THEN /\ st' = [st EXCEPT ![name] = "calling"]
                  /\ prompts' = [prompts EXCEPT ![name] = Render(name, ParInputOf(name))]
                  /\ Issue(name)
                  /\ UNCHANGED err
             ELSE /\ st' = [st EXCEPT ![name] = "raised"]
                  /\ err' = [err EXCEPT ![name] = "KeyError"]
                  /\ UNCHANGED <<prompts, calls, lateCalls>>
    /\ UNCHANGED <<entry, message, outcome, out, input, results, resp, cancelled>>

\* variant of ParRespond: the classifier's branch and the rater's branch
\* write their output under one key, the later of the two overwriting
ParRespondSharedKey ==
    /\ UNCHANGED <<llm, checkerVars>>
    /\ entry = "parallel"
    /\ outcome = "running"
    /\ \E name \in PromptNames : \E text \in Texts(name) :
          /\ st[name] = "calling"
          /\ resp' = [resp EXCEPT ![name] = text]
          /\ IF ~ParseOk(text)
             THEN /\ st' = [st EXCEPT ![name] = "raised"]
                  /\ err' = [err EXCEPT ![name] = "OutputParserException"]
                  /\ UNCHANGED out
             ELSE /\ out' = [n \in StageNames |->
                               IF n = name \/ (n = "classifier" /\ name = "right-wing-rater")
                               THEN ParseJson(text) ELSE out[n]]
                  /\ IF name = "detector" /\ ~ItemgetterOk(ParseJson(text))
                     THEN /\ st' = [st EXCEPT ![name] = "done", !["validator"] = "raised"]
                          /\ err' = [err EXCEPT !["validator"] = "KeyError"]
                     ELSE /\ st' = [st EXCEPT ![name] = "done"]
                          /\ UNCHANGED err
    /\ UNCHANGED <<entry, message, outcome, input, results, calls, prompts, cancelled,
                   lateCalls>>

\* the model answers a stage of the map_chain: JsonOutputParser decodes the
\* response or raises OutputParserException, which nothing catches; the
\* detector's output then goes through the itemgetters of lines 75-76
ParRespond ==
    /\ UNCHANGED <<llm, checkerVars>>
    /\ entry = "parallel"
    /\ outcome = "running"
    /\ \E name \in PromptNames : \E text \in Texts(name) :
          /\ st[name] = "calling"
          /\ resp' = [resp EXCEPT ![name] = text]
          /\ IF ~ParseOk(text)
             THEN /\ st' = [st EXCEPT ![name] = "raised"]
                  /\ err' = [err EXCEPT ![name] = "OutputParserException"]
                  /\ UNCHANGED out
             ELSE /\ out' = [out EXCEPT ![name] = ParseJson(text)]
                  /\ IF name = "detector" /\ ~ItemgetterOk(ParseJson(text))
                     THEN /\ st' = [st EXCEPT ![name] = "done", !["validator"] = "raised"]
                          /\ err' = [err EXCEPT !["validator"] = "KeyError"]
                     ELSE /\ st' = [st EXCEPT ![name] = "done"]
                          /\ UNCHANGED err
    /\ UNCHANGED <<entry, message, outcome, input, results, calls, prompts, cancelled,
                   lateCalls>>

\* the moderation service answers the moderator branch
ParModeratorReturn ==
    /\ UNCHANGED <<llm, checkerVars>>
    /\ entry = "parallel"
    /\ outcome = "running"
    /\ st["moderator"] = "calling"
    /\ \E r \in ModerationResults :
          /\ resp' = [resp EXCEPT !["moderator"] = r]
          /\ out' = [out EXCEPT !["moderator"] = ModerationChainOutput(r)]
    /\ st' = [st EXCEPT !["moderator"] = "done"]
    /\ UNCHANGED <<entry, message, outcome, err, input, results, calls, prompts,
                   cancelled, lateCalls>>

\* a provider error in a branch: the branch raises
ParProviderError ==
    /\ UNCHANGED <<llm, checkerVars>>
    /\ entry = "parallel"
    /\ outcome = "running"
    /\ \E name \in StageNames :
          /\ st[name] = "calling"
          /\ st' = [st EXCEPT ![name] = "raised"]
          /\ err' = [err EXCEPT ![name] = "ProviderError"]
    /\ UNCHANGED <<entry, message, outcome, out, input, results, calls, prompts,
                   resp, cancelled, lateCalls>>

\* a branch of the map_chain has returned or raised
BranchFinished(key) ==
    CASE key = "detection" ->
           st["detector"] = "raised" \/ st["validator"] \in {"done", "raised"}
      [] key = "right_wing_rater" -> st["right-wing-rater"] \in {"done", "raised"}
      [] OTHER -> st[key] \in {"done", "raised"}

\* the keys of the map_chain, lines 88-93
MapChainKeys == {"detection", "classifier", "right_wing_rater", "moderator"}

\* lines 80-86: the output of validator_chain
ValidatorChainOutput ==
    Dict([detector |-> Dict([classification |-> out["detector"].d["classification"],
                             explanation |-> out["detector"].d["explanation"]]),
          validator |-> out["validator"]])

\* variant of ParReport: the detector and the validator as keys of their own
ParReportFlat ==
    [detector |-> ValidatorChainOutput.d["detector"],
     validator |-> out["validator"],
     classifier |-> out["classifier"],
     right_wing_rater |-> out["right-wing-rater"],
     moderator |-> out["moderator"]]

\* lines 88-93: the output of the map_chain
ParReport ==
    [detection |-> ValidatorChainOutput,
     classifier |-> out["classifier"],
     right_wing_rater |-> out["right-wing-rater"],
     moderator |-> out["moderator"]]

\* RunnableParallel.invoke collects the branches: it hands back the dict
\* when every branch returned and raises when one raised
ParReturn ==
    /\ UNCHANGED <<llm, checkerVars>>
    /\ entry = "parallel"
    /\ outcome = "running"
    /\ \A key \in MapChainKeys : BranchFinished(key)
    /\ IF ~cancelled /\ \A name \in StageNames : st[name] = "done"
       THEN outcome' = "returned" /\ results' = ParReport
       ELSE outcome' = "raised" /\ UNCHANGED results
    /\ UNCHANGED <<entry, message, st, err, out, input, calls, prompts, resp,
                   cancelled, lateCalls>>

(***************************************************************************)
(* The caller interrupts a run.  Neither entry point handles it: the loop  *)
(* of analyse_text_message_with_llm is left with the exception; the        *)
(* branches of the map_chain already handed to the executor run on, and    *)
(* invoke raises once they are over.                                       *)
(***************************************************************************)
Interrupt ==
    /\ UNCHANGED <<llm, checkerVars>>
    /\ outcome = "running"
    /\ ~cancelled
    /\ cancelled' = TRUE
    /\ outcome' = IF entry = "sequential" THEN "raised" ELSE outcome
    /\ UNCHANGED <<entry, message, st, err, out, input, results, calls, prompts,
                   resp, lateCalls>>

Next ==
    \/ SeqInvoke
    \/ SeqModeratorReturn
    \/ SeqRespond
    \/ SeqRetryRespond
    \/ SeqProviderError
    \/ ParInvoke
    \/ ParDispatch
    \/ ParRespond
    \/ ParModeratorReturn
    \/ ParProviderError
    \/ ParReturn
    \/ Interrupt

Spec == Init /\ [][Next]_vars

(***************************************************************************)
(* JsonBooleanChecker called on a decoded record, as parse(result) does.   *)
(***************************************************************************)
CheckerInit ==
    /\ PipelineInit
    /\ jbcIn \in CheckerRecords
    /\ jbcOut = [status |-> "idle", value |-> NoValue]

\* lines 189-198 and 200-201
JsonBooleanCheckerParse ==
    /\ jbcOut.status = "idle"
    /\ jbcOut' = IF ParseResultRaises(jbcIn)
                 THEN [status |-> "AttributeError", value |-> Dict(ParseResultPartial(jbcIn))]
                 ELSE [status |-> "returned", value |-> Dict(ParseResult(jbcIn))]
    /\ UNCHANGED <<jbcIn, pipelineVars>>

CheckerNext == JsonBooleanCheckerParse

CheckerSpec == CheckerInit /\ [][CheckerNext]_vars


(***************************************************************************)
(* The vocabulary of the properties.                                       *)
(***************************************************************************)
Terminated == outcome \in {"returned", "raised"}

\* the status a stage output stands for: a decoded record is Parsed, a plain
\* string is FallbackRaw
Parsed(v) == v.kind = "dict"

FallbackRaw(v) == v.kind = "str"

\* a slot reported as failed, with its reason
Failed(reason) == [kind |-> "failed", s |-> reason, d |-> NoDict]

\* the slot of a stage in the dict handed to the caller, under either shape
Slot(name) ==
    IF outcome # "returned" THEN NoValue
    ELSE IF name \in DOMAIN results THEN results[name]
    ELSE IF name = "right-wing-rater" /\ "right_wing_rater" \in DOMAIN results
         THEN results["right_wing_rater"]
    ELSE IF name \in {"detector", "validator"} /\ "detection" \in DOMAIN results
            /\ Has(results["detection"], name)
         THEN results["detection"].d[name]
    ELSE NoValue

AllSlotsFilled == \A name \in StageNames : Slot(name) # NoValue

Outstanding == {name \in StageNames : st[name] \in {"calling", "retrying"}}

\* the response of a stage could not be decoded as JSON
DecodeFailed(name) == calls[name] = 2 \/ err[name] = "OutputParserException"

DetectorResultProduced ==
    st["detector"] = "done" /\ (Parsed(out["detector"]) \/ FallbackRaw(out["detector"]))

(* C1: the validation stage is rendered, invoked and answered only once the
   detector's result exists, as a decoded record or as raw text; no state
   holds a validation call while the detector has no result. *)
C1_ValidationAfterDetection ==
    (\/ st["validator"] # "pending"
     \/ calls["validator"] > 0
     \/ prompts["validator"] # NoPrompt
     \/ out["validator"] # NoValue) => DetectorResultProduced

C1_Witness ==
    /\ entry = "parallel"
    /\ st["validator"] = "calling"
    /\ calls["validator"] = 1
    /\ Parsed(out["detector"])
    /\ st["classifier"] = "pending"

(* C2: when the detection stage fails with a provider error, no validation
   call is issued and the run still hands back a report whose validation
   slot is Failed with the reason "upstream detector failed". *)
C2_UpstreamFailureReported ==
    (Terminated /\ ~cancelled /\ err["detector"] = "ProviderError") =>
        /\ calls["validator"] = 0
        /\ outcome = "returned"
        /\ Slot("validator") = Failed("upstream detector failed")

(* C3: a provider error of one invocation stays in its stage: the run does
   not raise, the stage's slot is a Failed marker, and every other stage
   has its own result in the report. *)
C3_ProviderErrorContained ==
    \A name \in StageNames :
        (Terminated /\ ~cancelled /\ err[name] = "ProviderError") =>
            /\ outcome = "returned"
            /\ Slot(name).kind = "failed"
            /\ \A other \in StageNames \ {name} : Slot(other) # NoValue

(* C4: for every stage, a response that does not decode leads to exactly
   one more invocation, for plain text, and to a FallbackRaw result; the
   stage fails only when that second invocation has a provider error. *)
C4_FallbackOnDecodeFailure ==
    \A name \in PromptNames :
        DecodeFailed(name) =>
            /\ calls[name] = 2
            /\ \/ st[name] = "retrying"
               \/ err[name] = "ProviderError"
               \/ st[name] = "done" /\ FallbackRaw(out[name])

(* C5: when the detector's response does not decode, the detector slot is
   FallbackRaw with the raw text as payload, the validator is invoked with
   that raw text as its classification, and the run hands back a report
   with the results of the other stages. *)
C5_DetectorFallbackFeedsValidator ==
    (/\ Terminated /\ ~cancelled
     /\ DecodeFailed("detector")
     /\ \A name \in StageNames : err[name] # "ProviderError"
     /\ \A name \in PromptNames \ {"detector"} : ~DecodeFailed(name)) =>
        /\ outcome = "returned"
        /\ Slot("detector") = ParseStr(resp["detector"])
        /\ calls["validator"] >= 1
        /\ "classification" \in DOMAIN prompts["validator"].fields
        /\ prompts["validator"].fields["classification"] = Slot("detector")
        /\ AllSlotsFilled

(* C6: a run that is over is Complete: it has handed back a result with all
   four stage slots and the moderation slot filled, whatever the stages
   did. *)
C6_TerminatesComplete ==
    (Terminated /\ ~cancelled) => (outcome = "returned" /\ AllSlotsFilled)

\* stage `name` is dispatched while no other stage changes its state
DispatchAlone(name) ==
    /\ Next
    /\ calls'[name] = calls[name] + 1
    /\ \A other \in StageNames \ {name} : st'[other] = st[other]

IndependentStages == {"detector", "classifier", "right-wing-rater", "moderator"}

(* C7 as stated: in a running run each of the detection, classification,
   right-wing-rating and moderation stages not yet dispatched can be
   dispatched at once, waiting for no other stage. *)
C7_NoDispatchWaits ==
    outcome = "running" =>
        \A name \in IndependentStages :
            st[name] = "pending" => ENABLED DispatchAlone(name)

(* C7 as amended: in the parallel chain each of the four independent stages
   not yet dispatched can be dispatched at once, and the validator can be
   dispatched exactly when the detector is done; in
   analyse_text_message_with_llm at most one call is outstanding and a
   stage is called only when all the stages before it are done. *)
C7_ParallelChainDispatch ==
    /\ (entry = "parallel" /\ outcome = "running") =>
          /\ \A name \in IndependentStages :
                st[name] = "pending" => ENABLED DispatchAlone(name)
          /\ st["validator"] = "pending" =>
                (ENABLED DispatchAlone("validator") <=> st["detector"] = "done")
    /\ entry = "sequential" =>
          /\ Cardinality(Outstanding) <= 1
          /\ \A i \in 1..Len(text_analyser_prompts) :
                st[text_analyser_prompts[i]] # "pending" =>
                    /\ st["moderator"] = "done"
                    /\ \A j \in 1..(i - 1) : st[text_analyser_prompts[j]] = "done"

C7_Witness ==
    /\ entry = "parallel"
    /\ \A name \in IndependentStages : st[name] = "calling"
    /\ st["validator"] = "pending"

(* C8: once the caller has interrupted a run, no call is issued any more,
   and the run hands back a report in which every slot not filled by then
   is Failed with the reason "cancelled". *)
C8_CancelledSlotsReported ==
    cancelled =>
        /\ lateCalls = 0
        /\ Terminated =>
              /\ outcome = "returned"
              /\ \A name \in StageNames :
                    Slot(name) = IF st[name] = "done" THEN out[name] ELSE Failed("cancelled")

(* C9 as stated: the report of a completed run has exactly the keys
   moderator, detection, classifier and right_wing_rater, and detection has
   exactly the keys detector and validator. *)
C9_ReportKeys ==
    outcome = "returned" =>
        /\ DOMAIN results = {"moderator", "detection", "classifier", "right_wing_rater"}
        /\ results["detection"].kind = "dict"
        /\ DOMAIN results["detection"].d = {"detector", "validator"}

(* C9 as amended: the report of the parallel chain has exactly those keys;
   the report of analyse_text_message_with_llm has exactly the five keys
   moderator, detector, validator, classifier and right-wing-rater. *)
C9_ReportKeysPerEntry ==
    outcome = "returned" =>
        IF entry = "parallel"
        THEN /\ DOMAIN results = {"moderator", "detection", "classifier", "right_wing_rater"}
             /\ results["detection"].kind = "dict"
             /\ DOMAIN results["detection"].d = {"detector", "validator"}
        ELSE DOMAIN results = StageNames

C9_Witness ==
    /\ outcome = "returned"
    /\ entry = "parallel"
    /\ Parsed(results["classifier"])

\* the value under a path of keys, NoValue when the path is not there
At2(v, k1, k2) ==
    IF Has(v, k1) /\ Has(v.d[k1], k2) THEN v.d[k1].d[k2] ELSE NoValue

At3(v, k1, k2, k3) ==
    IF Has(v, k1) /\ Has(v.d[k1], k2) /\ Has(v.d[k1].d[k2], k3)
    THEN v.d[k1].d[k2].d[k3] ELSE NoValue

\* the detector and the validator both answered a well-formed record
WellFormedRun ==
    /\ outcome = "returned"
    /\ \A name \in {"detector", "validator"} :
          /\ calls[name] = 1
          /\ resp[name] \in {TxtDirect, TxtNoHate}

(* C10 as stated: the report has the validator's classification at
   detection.validator.classification and the categories of the moderation
   service at moderator.categories. *)
C10_ReportPaths ==
    WellFormedRun =>
        /\ At3(Dict(results), "detection", "validator", "classification")
              = resp["validator"].obj["classification"]
        /\ At2(Dict(results), "moderator", "categories") = resp["moderator"].d["categories"]

(* C10 as amended: the report of the parallel chain has the validator's
   classification at detection.validator.classification and the categories
   of the moderation service at moderator.mod_results.categories; the
   report of analyse_text_message_with_llm has them at
   validator.classification and moderator.categories. *)
C10_ReportPathsPerEntry ==
    WellFormedRun =>
        IF entry = "parallel"
        THEN /\ At3(Dict(results), "detection", "validator", "classification")
                   = resp["validator"].obj["classification"]
             /\ At3(Dict(results), "moderator", "mod_results", "categories")
                   = resp["moderator"].d["categories"]
             /\ At2(Dict(results), "moderator", "categories") = NoValue
        ELSE /\ At2(Dict(results), "validator", "classification")
                   = resp["validator"].obj["classification"]
             /\ At2(Dict(results), "moderator", "categories") = resp["moderator"].d["categories"]
             /\ "detection" \notin DOMAIN results

C10_Witness ==
    /\ WellFormedRun
    /\ entry = "parallel"
    /\ message = "You suck!"
    /\ resp["validator"] = TxtDirect
    /\ resp["moderator"].d["categories"].d["harassment"] = Bool(TRUE)


(* C11: when the detector's result is Parsed, the validator prompt is
   rendered with the caller's message, unchanged, at its message
   placeholder and with the detector's classification at its
   classification placeholder. *)
C11_ValidatorInputs ==
    (prompts["validator"] # NoPrompt /\ Parsed(out["detector"])) =>
        /\ prompts["validator"].fields["message"] = Str(message)
        /\ prompts["validator"].fields["classification"] = out["detector"].d["classification"]

\* the input the validator prompt is rendered with when the detector's output
\* is v: lines 73-77 in the parallel chain, line 118 in the loop
ValidatorInputFor(v) ==
    IF entry = "parallel" THEN DetectorChainOutput(v)
    ELSE Update([message |-> Str(message)], v)

WithExplanation(v, e) == Dict([v.d EXCEPT !["explanation"] = Str(e)])

Explanations == {"e1", "e2", "e3", "e9"}

(* C12: the detector's explanation is a required input of the validator
   prompt, and it reaches the rendered prompt: had the detector given any
   other explanation, everything else the same, the validator's rendered
   prompt would be a different one. *)
C12_ExplanationReachesValidator ==
    (prompts["validator"] # NoPrompt /\ Parsed(out["detector"])) =>
        /\ "explanation" \in InputVariables("validator")
        /\ prompts["validator"] = Render("validator", ValidatorInputFor(out["detector"]))
        /\ \A e \in Explanations :
              Str(e) # out["detector"].d["explanation"] =>
                  Render("validator", ValidatorInputFor(WithExplanation(out["detector"], e)))
                      # prompts["validator"]


(* C13: when the response of a stage gives a boolean field of the stage's
   schema as a string, the stage result holds at that field true for
   "true", "right", "yes" in any letter case, false for "false", "wrong",
   "no" in any letter case, and the string itself otherwise. *)
C13_BooleanWordsCoerced ==
    \A name \in PromptNames :
        (st[name] = "done" /\ Parsed(out[name])) =>
            \A k \in BoolFields(name) \cap DOMAIN resp[name].obj :
                /\ k \in DOMAIN out[name].d
                /\ out[name].d[k] = CoerceValue(resp[name].obj[k])


\* a string the checker recognises
RecognisedWord(v) == v.kind = "str" /\ Lower(v.s) \in true_vals \cup false_vals

(* C14: the coercion step raises no error on a decoded record, whatever
   kinds of value it holds, and hands back every value that is not one of
   the six recognised words as it was. *)
C14_CoercionTotal ==
    jbcOut.status # "idle" =>
        /\ jbcOut.status = "returned"
        /\ \A k \in DOMAIN jbcIn :
              ~RecognisedWord(jbcIn[k]) => jbcOut.value.d[k] = jbcIn[k]


\* the response is a JSON object with exactly the fields of the stage's
\* format, each of its type, the category one of those the template names
MatchesSchema(name, text) ==
    /\ text \in Texts(name)
    /\ text.json
    /\ DOMAIN text.obj = SchemaFields(name)
    /\ \A k \in BoolFields(name) : text.obj[k].kind = "bool"
    /\ \A k \in StrFields(name) : text.obj[k].kind = "str"
    /\ text.obj[EnumField(name)].s \in EnumValues(name)

\* the stage answered on its first invocation with such a response
AnsweredWellFormed(name) ==
    st[name] = "done" /\ calls[name] = 1 /\ MatchesSchema(name, resp[name])

(* C15: for each of the four stages, a response to the stage's invocation
   that is a JSON object matching the stage's format yields a Parsed stage
   result whose every field equals the field of the response, also in the
   report handed to the caller; the string fields explanation,
   classification and rating stay as they are when they hold one of the
   words yes, no, true, false, right, wrong. *)
C15_WellFormedUnchanged ==
    \A name \in PromptNames :
        AnsweredWellFormed(name) =>
            /\ Parsed(out[name])
            /\ \A k \in SchemaFields(name) : out[name].d[k] = resp[name].obj[k]
            /\ outcome = "returned" =>
                  /\ Parsed(Slot(name))
                  /\ \A k \in SchemaFields(name) : Slot(name).d[k] = resp[name].obj[k]

C15_Witness ==
    /\ outcome = "returned"
    /\ \A name \in PromptNames : AnsweredWellFormed(name)
    /\ Slot("right-wing-rater").d["explanation"] = Str("No")
    /\ Slot("classifier").d["racism"] = Bool(TRUE)


(* C16: a stage result is Parsed only if the decoded response has every
   field of the stage's schema and its classification or rating is a member
   of the enumeration; a JSON response that lacks a field or names a
   category outside the enumeration is a decode failure and takes the
   fallback path. *)
C16_ParsedOnlyIfSchemaMet ==
    \A name \in PromptNames :
        (st[name] = "done" /\ Parsed(out[name])) =>
            /\ SchemaFields(name) \subseteq DOMAIN out[name].d
            /\ out[name].d[EnumField(name)].s \in EnumValues(name)


(* C17: a run invokes the model at most twice for a stage, the second time
   only as the retry for plain text after a response that did not decode,
   and calls the moderation service at most once; a run that hands back its
   report has invoked the model for each of the four stages, each with the
   stage's own prompt, and the moderation service exactly once. *)
C17_InvocationCounts ==
    /\ calls["moderator"] <= 1
    /\ \A name \in PromptNames :
          /\ calls[name] <= 2
          /\ calls[name] >= 1 => prompts[name].name = name
          /\ calls[name] = 2 =>
                /\ entry = "sequential"
                /\ st[name] \in {"retrying", "done", "raised"}
                /\ st[name] = "retrying" => ~ParseOk(resp[name])
                /\ st[name] = "done" => FallbackRaw(out[name])
    /\ outcome = "returned" =>
          /\ calls["moderator"] = 1
          /\ \A name \in PromptNames : calls[name] >= 1

\* the retry triggered for two stages, the other two answered at once
C17_Witness ==
    /\ outcome = "returned"
    /\ calls["moderator"] = 1
    /\ calls["classifier"] = 2
    /\ calls["right-wing-rater"] = 2
    /\ calls["detector"] = 1
    /\ calls["validator"] = 1


(* C18: every invocation of the model by a stage, a retry included and the
   default model argument included, is made with temperature 0. *)
C18_TemperatureZero ==
    \A name \in PromptNames : calls[name] > 0 => llm.temperature = "0.0"


\* the output of a stage as its last response alone determines it
ResultOf(name) ==
    IF resp[name] = NoValue THEN NoValue
    ELSE IF name = "moderator"
    THEN IF entry = "parallel" THEN ModerationChainOutput(resp[name]) ELSE resp[name]
    ELSE IF calls[name] = 2 THEN ParseStr(resp[name]) ELSE ParseJson(resp[name])

\* the report as the responses alone determine it
ReportOfResponses ==
    IF entry = "parallel"
    THEN [detection |->
              Dict([detector |->
                        Dict([classification |-> ResultOf("detector").d["classification"],
                              explanation |-> ResultOf("detector").d["explanation"]]),
                    validator |-> ResultOf("validator")]),
          classifier |-> ResultOf("classifier"),
          right_wing_rater |-> ResultOf("right-wing-rater"),
          moderator |-> ResultOf("moderator")]
    ELSE [name \in StageNames |-> ResultOf(name)]

\* every slot written holds what the stage's own response determines, and
\* so does the report handed to the caller
SlotsDetermined ==
    /\ \A name \in StageNames : out[name] # NoValue => out[name] = ResultOf(name)
    /\ outcome = "returned" => results = ReportOfResponses

\* a step writes at most one slot, that of the stage whose response arrived
BranchWritesOwnSlot ==
    \A name \in StageNames :
        out'[name] # out[name] =>
            /\ st[name] \in {"calling", "retrying"}
            /\ resp'[name] # NoValue
            /\ \A other \in StageNames \ {name} :
                  out'[other] = out[other] /\ resp'[other] = resp[other]

(* C19: every step of a run writes at most one slot, the slot of the stage
   whose response arrived, and each slot and the final report hold what the
   responses determine, whatever the order in which the branches were
   dispatched and completed. *)
C19_OrderIndependent == []SlotsDetermined /\ [][BranchWritesOwnSlot]_vars

\* the later branches of the map_chain have completed before an earlier
\* one, each with its own slot written
C19_Witness ==
    /\ entry = "parallel"
    /\ st["right-wing-rater"] = "done" /\ st["moderator"] = "done"
    /\ st["validator"] = "done"
    /\ st["classifier"] = "calling"
    /\ out["classifier"] = NoValue
    /\ out["right-wing-rater"] = Dict(TxtRater.obj)
    /\ out["validator"] = Dict(TxtNoHate.obj)


\* a slot once written keeps its value, in the run and in the report
WrittenOnce ==
    /\ \A name \in StageNames : out[name] # NoValue => out'[name] = out[name]
    /\ \A k \in DOMAIN results : k \in DOMAIN results' /\ results'[k] = results[k]

\* a stage that is over stays over and is not invoked again
NoReinvocation ==
    \A name \in StageNames :
        st[name] \in {"done", "raised"} => st'[name] = st[name] /\ calls'[name] = calls[name]

(* C20: within one run a result slot once written is never written again, a
   stage that returned or failed is never invoked again, and a run that has
   handed back its report or raised changes nothing further. *)
C20_WriteOnceTerminal ==
    [][ /\ WrittenOnce
        /\ NoReinvocation
        /\ Terminated => UNCHANGED pipelineVars ]_vars

\* a returned run with all five slots set, one of them after a retry
C20_Witness ==
    /\ entry = "sequential"
    /\ outcome = "returned"
    /\ AllSlotsFilled
    /\ calls["validator"] = 2
    /\ \A name \in StageNames : out[name] = results[name]
    /\ ~ENABLED Next


\* the stages after the detector
LaterStages == {"validator", "classifier", "right-wing-rater"}

(* C21: whatever the detector answered, a record with a key named message
   or other extra keys included, the validator, the classifier and the
   right-wing rater are rendered with the caller's message at their message
   placeholder. *)
C21_DetectorLeavesMessage ==
    \A name \in LaterStages :
        prompts[name] # NoPrompt => prompts[name].fields["message"] = Str(message)


\* the input analyse_text_message_with_llm renders a prompt with, the
\* detector having answered: lines 103 and 117-118
SeqInputOf(name) ==
    IF name = "detector" THEN [message |-> Str(message)]
    ELSE Update([message |-> Str(message)], out["detector"])

\* the prompt an entry point issues for a stage, the detector having answered
RenderedBy(e, name) ==
    LET inp == IF e = "parallel" THEN ParInputOf(name) ELSE SeqInputOf(name)
    IN  IF CanRender(name, inp) THEN Render(name, inp) ELSE NoPrompt

\* the detector's payload in the report of an entry point: lines 81-84, line 120
DetectorPayloadBy(e) ==
    IF e = "parallel" THEN ValidatorChainOutput.d["detector"] ELSE out["detector"]

\* the operators above compute what the run at hand has issued
RenderedAsIssued ==
    \A name \in PromptNames :
        (prompts[name] # NoPrompt /\ (name \in LaterStages => st["detector"] = "done")) =>
            prompts[name] = RenderedBy(entry, name)

(* C22: for the same message and the same detector response, the parallel
   chain and analyse_text_message_with_llm issue the same rendered prompt
   for each of the four stages and report the same payload for the
   detector. *)
C22_EntryPointsAgree ==
    (st["detector"] = "done" /\ ItemgetterOk(out["detector"])) =>
        /\ RenderedAsIssued
        /\ \A name \in PromptNames :
              RenderedBy("parallel", name) = RenderedBy("sequential", name)
        /\ DetectorPayloadBy("parallel") = DetectorPayloadBy("sequential")

====
